---------------------------- MODULE Spec2Model ----------------------------
(***************************************************************************)
(* simplecc: a dictionary-driven text substitution engine (src/src/lib.rs). *)
(*                                                                         *)
(* A string (&str, Box<str>, String) is a sequence of characters; its      *)
(* Rust length and its slice indices are counted in UTF-8 bytes, so every  *)
(* character carries its encoded width.  An Option is a sequence of length *)
(* 0 (None) or 1 (Some).                                                   *)
(***************************************************************************)
EXTENDS Naturals, Sequences, FiniteSets, TLC

VARIABLES
    root,     \* load_lines: the tree under construction (lib.rs:180)
    hist,     \* the (key, value) pairs handed to root.add so far (lib.rs:186-188)
    dicts,    \* the Dict values the caller owns: dicts[1] is `self`, dicts[2] is `other`
    lines,    \* Some(the lines the newest Dict was loaded from); None once it is chained
    pc,       \* "idle" | "replace" (inside Dict::replace) | "done" | "panic"
    input,    \* replace_all: the argument `text`
    layer,    \* replace_all: index of the root being applied (1 is roots[0])
    buffer,   \* Dict::replace: the text this call was given (replace_all's `buffer`)
    text,     \* Dict::replace: the remaining slice `text`
    output,   \* Dict::replace: the String `output`
    consumed  \* characters of buffer the turns of the loop have consumed so far

vars == <<root, hist, dicts, lines, pc, input, layer, buffer, text, output, consumed>>

-----------------------------------------------------------------------------
(* Bounds of the model *)

MaxKeyLen == 3

MaxRules == 3

MaxLayers == 2

MaxTextLen == 3

-----------------------------------------------------------------------------
(* Strings *)

TAB == "\t"

SPACE == " "

\* "A" is a one-byte character, "Han" a three-byte (CJK) character.
Chars == {"A", "Han"}

Utf8Len(c) == IF c = "Han" THEN 3 ELSE 1

None == <<>>

Some(x) == <<x>>

RECURSIVE Bytes(_)
\* str::len: the length in bytes
Bytes(s) == IF s = <<>> THEN 0 ELSE Utf8Len(Head(s)) + Bytes(Tail(s))

\* The result of a panicking slice: a string no input contains.
Panic == <<"!">>

RECURSIVE IsCharBoundary(_, _)
\* str::is_char_boundary: byte offset n is the start of s, or the end of one
\* of its characters
IsCharBoundary(s, n) ==
    \/ n = 0
    \/ /\ s # <<>>
       /\ Utf8Len(Head(s)) <= n
       /\ IsCharBoundary(Tail(s), n - Utf8Len(Head(s)))

RECURSIVE CharsBefore(_, _)
\* The number of characters of s before the character boundary n
CharsBefore(s, n) ==
    IF n = 0 THEN 0 ELSE 1 + CharsBefore(Tail(s), n - Utf8Len(Head(s)))

\* &s[..n]: panics unless n is a character boundary of s
SliceTo(s, n) ==
    IF IsCharBoundary(s, n) THEN SubSeq(s, 1, CharsBefore(s, n)) ELSE Panic

\* &s[n..]: panics unless n is a character boundary of s
SliceFrom(s, n) ==
    IF IsCharBoundary(s, n) THEN SubSeq(s, 1 + CharsBefore(s, n), Len(s)) ELSE Panic

\* str::starts_with
StartsWith(s, p) == Len(p) <= Len(s) /\ SubSeq(s, 1, Len(p)) = p

\* All strings over S of length lo..hi
Strings(S, lo, hi) == UNION {[1..n -> S] : n \in lo..hi}

-----------------------------------------------------------------------------
(* DictNode *)

\* DictNode::node(): a Node with no value and no tails
DictNodeNode == [kind |-> "Node", value |-> None, tails |-> <<>>]

\* DictNode::leaf(key, value)
DictNodeLeaf(key, value) == [kind |-> "Leaf", key |-> key, value |-> value]

\* A split that rebuilds the Leaf's rule only when its key goes on: a Leaf
\* whose key is used up loses its value.
SelfNodeDropsValue(self) ==
    IF self.kind = "Node"
    THEN self
    ELSE IF self.key # <<>>
         THEN [kind |-> "Node", value |-> None,
               tails |-> (Head(self.key) :> DictNodeLeaf(Tail(self.key), self.value))]
         ELSE [kind |-> "Node", value |-> None, tails |-> <<>>]

\* A split that keys the child Leaf by the Leaf's whole key, not by what is
\* left of it after its first character.
SelfNodeKeepsKey(self) ==
    IF self.kind = "Node"
    THEN self
    ELSE IF self.key # <<>>
         THEN [kind |-> "Node", value |-> None,
               tails |-> (Head(self.key) :> DictNodeLeaf(self.key, self.value))]
         ELSE [kind |-> "Node", value |-> Some(self.value), tails |-> <<>>]

\* DictNode::add, the Leaf arm: the Leaf becomes a Node that holds the Leaf's
\* own rule, as a child Leaf under the first character of its key or, when its
\* key is empty, as the Node's value.
SelfNode(self) ==
    IF self.kind = "Node"
    THEN self
    ELSE IF self.key # <<>>
         THEN [kind |-> "Node", value |-> None,
               tails |-> (Head(self.key) :> DictNodeLeaf(Tail(self.key), self.value))]
         ELSE [kind |-> "Node", value |-> Some(self.value), tails |-> <<>>]

\* A store that keeps the value a Node already holds (first write wins).
SetValueIfAbsent(self_node, value) ==
    IF self_node.value = None THEN [self_node EXCEPT !.value = Some(value)] ELSE self_node

\* DictNode::add at the end of the key: self_node.value = Some(value)
SetValue(self_node, value) == [self_node EXCEPT !.value = Some(value)]

RECURSIVE Add(_, _, _)
\* DictNode::add
Add(self, key, value) ==
    LET self_node == SelfNode(self)
    IN  IF key # <<>>
        THEN LET hash_key == Head(key)
                 suffix == Tail(key)
             IN  IF hash_key \in DOMAIN self_node.tails
                 THEN [self_node EXCEPT
                          !.tails[hash_key] = Add(@, suffix, value)]
                 ELSE [self_node EXCEPT
                          !.tails = (hash_key :> DictNodeLeaf(suffix, value)) @@ @]
        ELSE SetValue(self_node, value)

\* A matched length that takes the first character of query for one byte.
MatchedLenOneByte(query, suffix, prefix) == 1 + Bytes(prefix)

\* prefix_match, the Node arm's closure: the byte length of the matched part
\* of query, given the part the child matched in suffix
MatchedLen(query, suffix, prefix) == Bytes(query) - Bytes(suffix) + Bytes(prefix)

\* prefix_match, the Node arm's fallback when the child gave no match
OrElseValue(child, value) ==
    IF child # None
    THEN child
    ELSE IF value # None THEN Some([prefix |-> <<>>, value |-> value[1]]) ELSE None

\* prefix_match, the Node arm's map over the child's match: the prefix matched
\* in suffix becomes the prefix matched in query
MapPrefix(query, suffix, found) ==
    IF found # None
    THEN Some([prefix |-> SliceTo(query, MatchedLen(query, suffix, found[1].prefix)),
               value |-> found[1].value])
    ELSE None

RECURSIVE PrefixMatch(_, _)
\* DictNode::prefix_match: None, or Some of the matched prefix of query and the value
PrefixMatch(self, query) ==
    IF self.kind = "Leaf"
    THEN IF StartsWith(query, self.key)
         THEN Some([prefix |-> SliceTo(query, Bytes(self.key)), value |-> self.value])
         ELSE None
    ELSE IF query # <<>> /\ Head(query) \in DOMAIN self.tails
         THEN OrElseValue(MapPrefix(query, Tail(query),
                                    PrefixMatch(self.tails[Head(query)], Tail(query))),
                          self.value)
         ELSE OrElseValue(None, self.value)

-----------------------------------------------------------------------------
(* Dict::replace and Dict::replace_all as functions of their arguments *)

\* The result of a scan whose loop never exits: a string no input contains.
Diverges == <<"...">>

\* A turn that advances by the length of the value, not of the matched key.
ReplaceTurnByValue(dict, txt) ==
    LET m == PrefixMatch(dict, txt)
    IN  IF m # None
        THEN [push |-> m[1].value, rest |-> SliceFrom(txt, Bytes(m[1].value))]
        ELSE [push |-> <<Head(txt)>>, rest |-> Tail(txt)]

\* A turn that, on no match, copies one character and steps over the next.
ReplaceTurnSkips(dict, txt) ==
    LET m == PrefixMatch(dict, txt)
    IN  IF m # None
        THEN [push |-> m[1].value, rest |-> SliceFrom(txt, Bytes(m[1].prefix))]
        ELSE [push |-> <<Head(txt)>>, rest |-> Tail(Tail(txt) \o <<Head(txt)>>)]

\* Dict::replace, one turn of the while loop on a non-empty text: what is
\* pushed to output, and the text that remains.
ReplaceTurn(dict, txt) ==
    LET m == PrefixMatch(dict, txt)
    IN  IF m # None
        THEN [push |-> m[1].value, rest |-> SliceFrom(txt, Bytes(m[1].prefix))]
        ELSE [push |-> <<Head(txt)>>, rest |-> Tail(txt)]

RECURSIVE Replace(_, _)
\* Dict::replace.  The loop reads only dict and text: a turn that leaves text
\* as it was is followed by the same turn, for ever.
Replace(dict, txt) ==
    IF txt = <<>>
    THEN <<>>
    ELSE LET t == ReplaceTurn(dict, txt)
         IN  IF t.rest = Panic THEN Panic
             ELSE IF t.rest = txt THEN Diverges
             ELSE LET r == Replace(dict, t.rest)
                  IN  IF r \in {Panic, Diverges} THEN r ELSE t.push \o r

RECURSIVE ReplaceFrom(_, _, _)
\* Dict::replace_all, the for loop over roots[i..]
ReplaceFrom(roots, i, buf) ==
    IF i > Len(roots) \/ buf \in {Panic, Diverges}
    THEN buf
    ELSE ReplaceFrom(roots, i + 1, Replace(roots[i], buf))

\* Dict::replace_all: roots[0] is indexed before the loop
ReplaceAll(d, txt) ==
    IF Len(d.roots) = 0 THEN Panic ELSE ReplaceFrom(d.roots, 1, txt)

Texts == Strings(Chars, 0, MaxTextLen)

Queries == Strings(Chars, 0, MaxKeyLen + 1)

-----------------------------------------------------------------------------
(* Building one tree, rule by rule *)

\* Nothing is loaded: load_lines starts from DictNode::node(), the caller
\* owns no Dict, and replace_all is not running.
Init ==
    /\ root = DictNodeNode
    /\ hist = <<>>
    /\ dicts = <<>>
    /\ lines = None
    /\ pc = "idle"
    /\ input = <<>>
    /\ layer = 0
    /\ buffer = <<>>
    /\ text = <<>>
    /\ output = <<>>
    /\ consumed = 0

RECURSIVE AddAll(_, _)
\* load_lines: the for_each that adds every rule, in order, to root
AddAll(node, rules) ==
    IF rules = <<>>
    THEN node
    ELSE AddAll(Add(node, Head(rules)[1], Head(rules)[2]), Tail(rules))

Keys == Strings(Chars, 0, MaxKeyLen)

Values == {<<"A">>, <<"Han", "A">>}

\* load_lines, one turn of its for_each: root.add(&key, value)
AddRule(key, value) ==
    /\ Len(hist) < MaxRules
    /\ root' = Add(root, key, value)
    /\ hist' = Append(hist, <<key, value>>)
    /\ UNCHANGED <<dicts, lines, pc, input, layer, buffer, text, output, consumed>>

TreeNext == \E key \in Keys, value \in Values : AddRule(key, value)

TreeSpec == Init /\ [][TreeNext]_vars

-----------------------------------------------------------------------------
(* Dict: loading and chaining *)

RECURSIVE IndexOf(_, _)
\* The position of the first c in s, or 0 when s holds none
IndexOf(s, c) ==
    IF s = <<>> THEN 0
    ELSE IF Head(s) = c THEN 1
    ELSE IF IndexOf(Tail(s), c) = 0 THEN 0 ELSE 1 + IndexOf(Tail(s), c)

\* str::splitn(2, c): one piece when s holds no c, else the piece before the
\* first c and the piece after it
SplitN2(s, c) ==
    IF IndexOf(s, c) = 0
    THEN <<s>>
    ELSE <<SubSeq(s, 1, IndexOf(s, c) - 1), SubSeq(s, IndexOf(s, c) + 1, Len(s))>>

\* load_lines, the filter_map closure: the rule of a line, if it has one.
\* cols.next()? is the key; the second cols.next()? fails when the line holds
\* no TAB; splitn(2, ' ').next()? is the first piece of the value column, and
\* splitn always yields a first piece.
ParseLine(line) ==
    LET cols == SplitN2(line, TAB)
    IN  IF Len(cols) < 2
        THEN None
        ELSE Some(<<cols[1], SplitN2(cols[2], SPACE)[1]>>)

RECURSIVE ParseLines(_)
\* load_lines, the filter_map over the lines
ParseLines(ls) ==
    IF ls = <<>>
    THEN <<>>
    ELSE ParseLine(Head(ls)) \o ParseLines(Tail(ls))

\* A load that returns a Dict with no root.
LoadLinesNoRoot(ls) == [roots |-> <<>>]

\* Dict::load_lines
LoadLines(ls) == [roots |-> <<AddAll(DictNodeNode, ParseLines(ls))>>]

\* A chain that puts other's roots first.
ChainOtherFirst(self, other) == [roots |-> other.roots \o self.roots]

\* Dict::chain
Chain(self, other) == [roots |-> self.roots \o other.roots]

-----------------------------------------------------------------------------
(* The program: a caller loads rule files, chains the dictionaries and     *)
(* converts a text                                                          *)

Line(key, value) == key \o <<TAB>> \o value

\* The rule files the caller loads, each a sequence of lines.
RuleFiles ==
    { <<>>,
      \* an empty line, two rules, and alternatives after a SPACE
      << <<>>, Line(<<"A">>, <<"Han", "A">>),
         Line(<<"A", "Han">>, <<"A", SPACE, "Han", "Han">>) >>,
      << Line(<<"Han">>, <<"A", "A">>) >>,
      \* a key given twice, around a line with no TAB
      << Line(<<"A">>, <<"A">>), <<"A", "Han">>, Line(<<"A">>, <<"Han">>) >>,
      \* an empty value column
      << Line(<<"A">>, <<"Han">>), Line(<<"A">>, <<>>) >>,
      \* a value column that is empty before its first SPACE
      << Line(<<"Han">>, <<SPACE, "A">>) >>,
      \* an empty key
      << Line(<<>>, <<"A">>) >>,
      \* no line with a TAB
      << <<"A">>, <<>> >> }

\* No run of the loop that ends pushes more than this: a value is at most
\* twice as long as its key.
OutputCap == MaxTextLen * (2 ^ MaxLayers)

\* Dict::load_lines (load_str, load): the caller gets a new Dict
Load(file) ==
    /\ pc = "idle"
    /\ Len(dicts) < 2
    /\ dicts' = Append(dicts, LoadLines(file))
    /\ lines' = Some(file)
    /\ UNCHANGED <<root, hist, pc, input, layer, buffer, text, output, consumed>>

\* self.chain(other): both are moved into the new Dict
ChainDicts ==
    /\ pc = "idle"
    /\ Len(dicts) = 2
    /\ Len(dicts[1].roots) + Len(dicts[2].roots) <= MaxLayers
    /\ dicts' = <<Chain(dicts[1], dicts[2])>>
    /\ lines' = None
    /\ UNCHANGED <<root, hist, pc, input, layer, buffer, text, output, consumed>>

\* replace_all, up to the first call of Dict::replace: &self.roots[0] panics
\* on a Dict with no root
CallReplaceAll(t) ==
    /\ pc = "idle"
    /\ Len(dicts) = 1
    /\ input' = t
    /\ IF Len(dicts[1].roots) = 0
       THEN /\ pc' = "panic"
            /\ UNCHANGED <<layer, buffer, text, output, consumed>>
       ELSE /\ pc' = "replace"
            /\ layer' = 1
            /\ buffer' = t
            /\ text' = t
            /\ output' = <<>>
            /\ consumed' = 0
    /\ UNCHANGED <<root, hist, dicts, lines>>

\* Dict::replace, one turn of the while loop
ReplaceLoop ==
    /\ pc = "replace"
    /\ text # <<>>
    /\ Len(output) <= OutputCap
    /\ LET dict == dicts[1].roots[layer]
           m == PrefixMatch(dict, text)
           turn == ReplaceTurn(dict, text)
       IN  IF turn.rest = Panic
           THEN /\ pc' = "panic"
                /\ UNCHANGED <<text, output, consumed>>
           ELSE /\ pc' = pc
                /\ output' = output \o turn.push
                /\ text' = turn.rest
                /\ consumed' = consumed + (IF m # None THEN Len(m[1].prefix) ELSE 1)
    /\ UNCHANGED <<root, hist, dicts, lines, input, layer, buffer>>

\* Dict::replace returns its output; replace_all hands it to the next root as
\* `buffer`, or returns it after the last root
ReplaceReturn ==
    /\ pc = "replace"
    /\ text = <<>>
    /\ IF layer < Len(dicts[1].roots)
       THEN /\ layer' = layer + 1
            /\ buffer' = output
            /\ text' = output
            /\ output' = <<>>
            /\ consumed' = 0
            /\ pc' = pc
       ELSE /\ pc' = "done"
            /\ UNCHANGED <<layer, buffer, text, output, consumed>>
    /\ UNCHANGED <<root, hist, dicts, lines, input>>

Next ==
    \/ \E file \in RuleFiles : Load(file)
    \/ ChainDicts
    \/ \E t \in Texts : CallReplaceAll(t)
    \/ ReplaceLoop
    \/ ReplaceReturn

Spec == Init /\ [][Next]_vars

-----------------------------------------------------------------------------
(* The rules a history of insertions stores, and the rules a tree holds *)

StoredKeys(h) == {h[i][1] : i \in DOMAIN h}

\* The value of the most recent insertion of key k
LastValue(h, k) ==
    h[CHOOSE i \in DOMAIN h :
         /\ h[i][1] = k
         /\ \A j \in DOMAIN h : h[j][1] = k => j <= i][2]

\* The longest key of h that is a prefix of q, if any
LongestStored(h, q) ==
    LET cands == {k \in StoredKeys(h) : StartsWith(q, k)}
    IN  IF cands = {}
        THEN None
        ELSE Some(CHOOSE k \in cands : \A k2 \in cands : Len(k2) <= Len(k))

RECURSIVE TreeRules(_)
\* The (key, value) pairs a tree holds: a Leaf holds its own pair, a Node its
\* value under the empty key and, under each tail's character, the tail's pairs.
TreeRules(node) ==
    IF node.kind = "Leaf"
    THEN {<<node.key, node.value>>}
    ELSE (IF node.value = None THEN {} ELSE {<<(<<>>), node.value[1]>>})
         \cup UNION {{<<(<<c>>) \o r[1], r[2]>> : r \in TreeRules(node.tails[c])}
                       : c \in DOMAIN node.tails}

Orders(n) == {f \in [1..n -> 1..n] : \A i, j \in 1..n : f[i] = f[j] => i = j}

-----------------------------------------------------------------------------
(* Claims about one tree (TreeSpec) *)

\* C1: in a tree built from rules with non-empty keys, prefix_match of any query
\* returns the longest stored key that is a prefix of the query, with the value
\* currently stored for it, and None exactly when no stored key is a prefix.
C1_LongestPrefixMatch ==
    (\A i \in DOMAIN hist : hist[i][1] # <<>>) =>
        \A q \in Queries :
            LET k == LongestStored(hist, q)
            IN  PrefixMatch(root, q) =
                    IF k = None
                    THEN None
                    ELSE Some([prefix |-> k[1], value |-> LastValue(hist, k[1])])

\* C1 witness: a query follows the path of a longer stored key past a stored
\* key, leaves that path before its end, and gets the shorter key.
C1_Witness ==
    /\ \A i \in DOMAIN hist : hist[i][1] # <<>>
    /\ \E q \in Queries, k1, k2 \in StoredKeys(hist) :
          /\ Len(k2) >= Len(k1) + 2 /\ Len(q) >= Len(k1) + 2
          /\ StartsWith(k2, SubSeq(q, 1, Len(k1) + 1))
          /\ ~StartsWith(q, k2)
          /\ PrefixMatch(root, q) = Some([prefix |-> k1, value |-> LastValue(hist, k1)])

\* C5: last write wins: prefix_match of a stored key returns the value of the
\* most recent insertion of that key, and the tree holds one value per key.
C5_LastWriteWins ==
    /\ \A k \in StoredKeys(hist) :
          PrefixMatch(root, k) = Some([prefix |-> k, value |-> LastValue(hist, k)])
    /\ \A r1, r2 \in TreeRules(root) : r1[1] = r2[1] => r1 = r2
    /\ {r[1] : r \in TreeRules(root)} = StoredKeys(hist)

\* C5 witness: a key held at a branching Node (a longer key goes through it)
\* is inserted again with another value, and the later value is returned.
C5_Witness ==
    /\ Len(hist) = 3
    /\ hist[1][1] = hist[3][1] /\ hist[1][2] # hist[3][2]
    /\ hist[1][1] # <<>>
    /\ StartsWith(hist[2][1], hist[1][1]) /\ hist[2][1] # hist[1][1]
    /\ PrefixMatch(root, hist[3][1]) = Some([prefix |-> hist[3][1], value |-> hist[3][2]])

\* C9: rules with pairwise distinct keys, inserted in any other order, give a
\* tree with the same prefix_match result for every query and the same
\* replace_all result for every text.
C9_OrderInsignificant ==
    (\A i, j \in DOMAIN hist : hist[i][1] = hist[j][1] => i = j) =>
        LET matches == [q \in Queries |-> PrefixMatch(root, q)]
            results == [t \in Texts |-> ReplaceAll([roots |-> <<root>>], t)]
        IN  \A p \in Orders(Len(hist)) :
                \A other \in {AddAll(DictNodeNode, [i \in 1..Len(hist) |-> hist[p[i]]])} :
                    /\ [q \in Queries |-> PrefixMatch(other, q)] = matches
                    /\ [t \in Texts |-> ReplaceAll([roots |-> <<other>>], t)] = results

\* C9 witness: three nested keys were inserted longest first, and the tree
\* built shortest first returns the same match for the longest key.
C9_Witness ==
    /\ Len(hist) = 3
    /\ \A i, j \in DOMAIN hist : hist[i][1] = hist[j][1] => i = j
    /\ StartsWith(hist[1][1], hist[2][1]) /\ StartsWith(hist[2][1], hist[3][1])
    /\ hist[3][1] # <<>>
    /\ PrefixMatch(AddAll(DictNodeNode, <<hist[3], hist[2], hist[1]>>), hist[1][1])
           = PrefixMatch(root, hist[1][1])
    /\ PrefixMatch(root, hist[1][1]) = Some([prefix |-> hist[1][1], value |-> hist[1][2]])

\* C10: an insertion of (k, v) leaves every other stored rule as it was, stores
\* no key other than k, and stores v for k.
C10_AddFrame ==
    [][hist' # hist =>
        LET k == hist'[Len(hist')][1]
            v == hist'[Len(hist')][2]
        IN  /\ TreeRules(root') = {r \in TreeRules(root) : r[1] # k} \cup {<<k, v>>}
            /\ \A r \in TreeRules(root) :
                  r[1] # k =>
                      PrefixMatch(root', r[1]) = Some([prefix |-> r[1], value |-> r[2]])
       ]_vars

\* C10 witness: the last insertion split a Leaf with a non-empty suffix into a
\* Node with two tails.
C10_Witness ==
    /\ Len(hist) = 2
    /\ LET prev == AddAll(DictNodeNode, <<hist[1]>>)
           c == hist[1][1][1]
       IN  /\ Len(hist[1][1]) >= 2
           /\ prev.tails[c].kind = "Leaf"
           /\ root.tails[c].kind = "Node"
           /\ Cardinality(DOMAIN root.tails[c].tails) = 2
-----------------------------------------------------------------------------
(* Claims about the program (Spec) *)

RECURSIVE RefScan(_, _)
\* The reference greedy scan over the rules h: at each position the value of
\* the longest key that is a prefix of what remains, advancing by that key's
\* length, else the next character, advancing by one.  A scan that advances
\* by an empty key never ends.
RefScan(h, t) ==
    IF t = <<>>
    THEN <<>>
    ELSE LET k == LongestStored(h, t)
         IN  IF k = None
             THEN LET r == RefScan(h, Tail(t))
                  IN  IF r = Diverges THEN r ELSE <<Head(t)>> \o r
             ELSE IF k[1] = <<>>
                  THEN Diverges
                  ELSE LET r == RefScan(h, SubSeq(t, Len(k[1]) + 1, Len(t)))
                       IN  IF r = Diverges THEN r ELSE LastValue(h, k[1]) \o r

\* The newest Dict of the caller: the one `lines` was loaded into
Newest == dicts[Len(dicts)]

\* C2: for a single-layer dictionary, replace_all returns the output of the
\* reference greedy scan over the loaded rules (and does not return where that
\* scan does not end).
C2_GreedyScan ==
    lines # None =>
        /\ pc = "done" => output = RefScan(ParseLines(lines[1]), input)
        /\ pc = "idle" =>
              \A t \in Texts : ReplaceAll(Newest, t) = RefScan(ParseLines(lines[1]), t)

\* C2 witness: with the rules A -> "Han A" and "A Han" -> A, the text
\* "A A Han" was converted to "Han A" "A": the longer key won at the second
\* position and the A emitted at the first was not matched again.
C2_Witness ==
    /\ pc = "done" /\ lines # None
    /\ \E r \in DOMAIN ParseLines(lines[1]) : ParseLines(lines[1])[r][1] = <<"A", "Han">>
    /\ input = <<"A", "A", "Han">>
    /\ output = <<"Han", "A", "A">>

\* C3: the scan loop of Dict::replace reaches the end of the text for every
\* loadable dictionary and every text: each turn of the loop leaves less text
\* than it found (a turn that does not is repeated for ever).
C3_ScanReachesEnd ==
    (pc = "replace" /\ text # <<>>) =>
        LET rest == ReplaceTurn(dicts[1].roots[layer], text).rest
        IN  rest # Panic /\ Len(rest) < Len(text)

\* The lines the specification says hold a rule: they hold a TAB, and their
\* value column is not empty before its first SPACE.
HoldsRule(line) ==
    /\ IndexOf(line, TAB) # 0
    /\ SplitN2(SplitN2(line, TAB)[2], SPACE)[1] # <<>>

\* C4: a line with no TAB, or whose value column is empty before its first
\* SPACE, contributes no rule: the loaded dictionary gives the prefix_match and
\* replace_all results of the dictionary loaded without those lines.
C4_MalformedLinesSkipped ==
    lines # None =>
        \A ref \in {LoadLines(SelectSeq(lines[1], HoldsRule))} :
            /\ \A q \in Queries :
                  PrefixMatch(Newest.roots[1], q) = PrefixMatch(ref.roots[1], q)
            /\ \A t \in Texts : ReplaceAll(Newest, t) = ReplaceAll(ref, t)

\* The Dict of roots[lo..hi] of d
Layers(d, lo, hi) == [roots |-> SubSeq(d.roots, lo, hi)]

\* C6: chain(D1, D2) holds D1's roots, then D2's; converting with it is
\* converting with D1, then with D2; and chaining three dictionaries either
\* way round gives the same Dict (so the same conversions).  Checked for the
\* two dictionaries the caller is about to chain, in both orders, and for every
\* finished run of replace_all, split after any of its layers.
C6_ChainComposes ==
    /\ (/\ pc = "idle"
        /\ Len(dicts) = 2
        /\ Len(dicts[1].roots) + Len(dicts[2].roots) <= MaxLayers) =>
          /\ \A i, j \in DOMAIN dicts :
                i # j =>
                    /\ Chain(dicts[i], dicts[j]).roots = dicts[i].roots \o dicts[j].roots
                    /\ \A t \in Texts :
                          ReplaceAll(Chain(dicts[i], dicts[j]), t) =
                          ReplaceAll(dicts[j], ReplaceAll(dicts[i], t))
          /\ \A i, j, k \in DOMAIN dicts :
                Chain(Chain(dicts[i], dicts[j]), dicts[k]) =
                Chain(dicts[i], Chain(dicts[j], dicts[k]))
    /\ pc = "done" =>
          \A n \in 1..(Len(dicts[1].roots) - 1) :
              /\ dicts[1] = Chain(Layers(dicts[1], 1, n),
                                  Layers(dicts[1], n + 1, Len(dicts[1].roots)))
              /\ output = ReplaceAll(Layers(dicts[1], n + 1, Len(dicts[1].roots)),
                                     ReplaceAll(Layers(dicts[1], 1, n), input))

\* C6 witness: a chained dictionary of two layers converted "A" to "Han A"
\* with its first layer and that to "A A A" with its second.
C6_Witness ==
    /\ pc = "done"
    /\ Len(dicts[1].roots) = 2
    /\ input = <<"A">>
    /\ buffer = <<"Han", "A">>
    /\ output = <<"A", "A", "A">>

\* C7: every Dict has at least one root: a load gives exactly one, a chain
\* gives as many as its two operands have together, and replace_all never
\* panics.
C7_NonEmptyLayers ==
    [][/\ \A i \in DOMAIN dicts' : Len(dicts'[i].roots) >= 1
       /\ Len(dicts') = Len(dicts) + 1 => Len(dicts'[Len(dicts')].roots) = 1
       /\ Len(dicts') < Len(dicts) =>
              Len(dicts'[1].roots) = Len(dicts[1].roots) + Len(dicts[2].roots)
       /\ pc' # "panic"
      ]_vars

\* C7 witness: two dictionaries loaded from input that holds no rule were
\* chained, and replace_all ran through both layers.
C7_Witness ==
    /\ pc = "done"
    /\ Len(dicts) = 1
    /\ dicts[1].roots = <<DictNodeNode, DictNodeNode>>
    /\ input # <<>>
    /\ output = input

\* C8: in every layer's scan the turns consume the layer's input from left to
\* right, each the matched key or one character: a match is a pair the layer's
\* tree holds, what remains is the input without the characters consumed, the
\* position never passes the end, and at the end all characters are consumed.
C8_Consumption ==
    /\ pc \in {"replace", "done"} =>
          /\ consumed <= Len(buffer)
          /\ text = SubSeq(buffer, consumed + 1, Len(buffer))
          /\ pc = "done" => consumed = Len(buffer)
    /\ (pc = "replace" /\ text # <<>>) =>
          \A m \in {PrefixMatch(dicts[1].roots[layer], text)} :
              m # None =>
                  /\ <<m[1].prefix, m[1].value>> \in TreeRules(dicts[1].roots[layer])
                  /\ consumed + Len(m[1].prefix) <= Len(buffer)

\* C8 witness: the second layer's scan has ended after consuming an input
\* longer than the text given to replace_all, by a key shorter than its value.
C8_Witness ==
    /\ pc = "done"
    /\ layer = 2
    /\ consumed = Len(buffer)
    /\ Len(buffer) > Len(input)
    /\ Len(output) > Len(buffer)

=============================================================================
